---- MODULE Spec2Model ----
(***************************************************************************)
(* Inventory-Management: the accounting core of inventory.py (the CLI      *)
(* catalog, class Inventory) and inventory_ui.py (the GUI catalog, class   *)
(* EnhancedInventory), with the Item ledger entry of each.                 *)
(*                                                                         *)
(* Money.  The code holds prices and costs in Python floats and rounds     *)
(* with round(x, 4) / round(x, 2).  Here every amount is an integer        *)
(* number of 1/Scale currency units (Scale = 10^5), so a unit price kept   *)
(* to 4 decimals is a multiple of U4 = 10 and a total cost kept to 2       *)
(* decimals a multiple of U2 = 1000; an input price may be finer than      *)
(* both.  Arithmetic is exact on rationals num/den.  round() on a float    *)
(* rounds the binary value the float really holds, so a result that is an  *)
(* exact decimal tie (0.025 to 2 places) goes up or down depending on the  *)
(* representation error (round(0.025, 2) = 0.03, round(0.045, 2) = 0.04):  *)
(* Round yields both neighbours at a tie and the single nearest multiple   *)
(* otherwise.                                                              *)
(*                                                                         *)
(* Strings.  A SKU is a sequence of one-character strings, so that         *)
(* sku.upper().strip() is computed and not assumed.                        *)
(*                                                                         *)
(* Not modelled: timestamps, barcodes, the audit table (log_action is      *)
(* only called when current_user is set; it is None after construction).   *)
(*                                                                         *)
(* Spec is the catalog called one call at a time, each call one step.      *)
(* SpecConcurrent is the GUI catalog with two callers whose sales overlap, *)
(* a sale being the statements of sell_item_with_commission and Item.sell  *)
(* taken one step each.                                                    *)
(* SpecViews adds the queries and the settings (reorder point, global      *)
(* threshold); SpecRenderer a caller that changes what a query returned;   *)
(* SpecStorage the items table, with save_to_database, a sale whose INSERT *)
(* raises, and a restart that loads the catalog from the table.            *)
(***************************************************************************)
EXTENDS Integers, Sequences, FiniteSets, TLC

\* ---------------------------------------------------------------- bounds
MaxCalls == 3          \* calls that return normally in one run of the program

\* ----------------------------------------------------------------- money
Scale == 10 ^ 5        \* model units per currency unit
U4 == Scale \div 10000 \* round(x, 4): one ten-thousandth
U2 == Scale \div 100   \* round(x, 2): one cent

\* An optional float (sale_price: float = None) is <<>> for None and <<v>>
\* for the value v.
None == <<>>
Some(v) == <<v>>
Val(o) == o[1]

Abs(x) == IF x < 0 THEN -x ELSE x
Min2(a, b) == IF a <= b THEN a ELSE b
Max2(a, b) == IF a >= b THEN a ELSE b

\* round(num/den, k) with unit = Scale/10^k, den > 0: the multiples of unit
\* nearest to num/den; two of them exactly when num/den lies half-way.
Round(num, den, unit) ==
    LET D  == den * unit
        lo == num \div D
        r  == num - lo * D
    IN  IF 2 * r < D THEN {lo * unit}
        ELSE IF 2 * r > D THEN {(lo + 1) * unit}
        ELSE {lo * unit, (lo + 1) * unit}

\* --------------------------------------------------------------- strings
Upper(c) == CASE c = "x" -> "X"
              [] c = "y" -> "Y"
              [] OTHER   -> c

IsSpace(c) == c = " "

RECURSIVE LStrip(_)
LStrip(s) == IF s # <<>> /\ IsSpace(Head(s)) THEN LStrip(Tail(s)) ELSE s

RECURSIVE RStrip(_)
RStrip(s) == IF s # <<>> /\ IsSpace(s[Len(s)])
             THEN RStrip(SubSeq(s, 1, Len(s) - 1)) ELSE s

\* sku.upper() without the strip()
Normalize_NoStrip(sku) == [i \in 1..Len(sku) |-> Upper(sku[i])]

\* sku.upper().strip()
Normalize(sku) == RStrip(LStrip([i \in 1..Len(sku) |-> Upper(sku[i])]))

\* ---------------------------------------------------------------- inputs
X1 == <<"X", "1">>
Y2 == <<"Y", "2">>
x1 == <<"x", "1", " ">>
RawSkus == {X1, x1, Y2}
Skus == {Normalize(s) : s \in RawSkus}

Widget == [name |-> "Widget", category |-> "General", supplier |-> "",
           location |-> "Main Warehouse"]
NoName == [name |-> "", category |-> "Tools", supplier |-> "Acme",
           location |-> "Retail Floor"]
Metas == {Widget, NoName}

PurchaseQtys == {0, 1, 2}
Prices == {-Scale, 2 * Scale, 4 * Scale + 6}
SellQtys == {0, 1, 2}
\* (sale_price, commission_rate) of a sale
SaleTerms == { <<None, 0>>, <<Some(0), 5>>, <<Some(5 * Scale), 5>> }

\* The calls made.  First SKU: every quantity at every price, and every sale.
\* The same SKU spelled in lower case with a trailing blank (bought under
\* two descriptions), and a second SKU (a free sample, bought at price 0
\* under two descriptions): a purchase, a rejected purchase and a sale.
Purchases ==
    ({X1} \X {Widget} \X PurchaseQtys \X Prices)
        \cup { <<x1, Widget, 1, 2 * Scale>>, <<x1, NoName, 1, 2 * Scale>>,
               <<Y2, NoName, 1, 0>>, <<Y2, Widget, 1, 0>>,
               <<Y2, Widget, 0, 0>> }
Sells ==
    ({X1} \X SellQtys \X SaleTerms)
        \cup { <<x1, 1, <<None, 0>>>>, <<Y2, 1, <<Some(5 * Scale), 5>>>> }

VARIABLES
    app,            \* which program runs: "CLI" (inventory.py) or "GUI"
    items,          \* Inventory._items / EnhancedInventory._items
    categories,     \* EnhancedInventory.categories
    sales,          \* rows of the sales table, in insertion order
    price_history,  \* rows of the price_history table
    last,           \* the last call: exception raised or values returned
    calls,          \* number of calls that returned normally so far
    net,            \* per SKU: successful purchases minus successful sales
    th,             \* per caller: where it is in a sale, and its locals
    db_items,       \* rows of the items table, by sku
    LOW_STOCK_THRESHOLD,  \* the module global of that name
    returned,       \* what the last query returned to its caller
    snap            \* the catalogs (values of items) there have been since
                    \* the last sales row or removal went to the database

vars == <<app, items, categories, sales, price_history, last, calls, net,
          th, db_items, LOW_STOCK_THRESHOLD, returned, snap>>

\* {} as a dict
EmptyMap == [x \in {} |-> x]

\* what the last call left with its caller: the exception it raised ("ok"
\* when it returned) and the values it returned
Call(op, result, profit, commission) ==
    [op |-> op, result |-> result, profit |-> profit,
     commission |-> commission]

NoCall == Call("none", "ok", 0, 0)

\* what a query returns: a dict of entries, an amount, a ratio num / den,
\* or a quantity to order per SKU (whatever the query does not return is
\* left as here)
NoValue == [entries |-> EmptyMap, amount |-> 0, ratio |-> <<0, 1>>,
            order |-> EmptyMap]

\* The callers of the catalog.  The GUI makes every call from the one
\* thread of the Tk main loop, a call at a time; SpecConcurrent has two
\* callers whose sales overlap.
Threads == {1, 2}

\* a caller that is not in a call
Idle == [pc |-> "idle", sku |-> <<>>, qty |-> 0, sale_price |-> None,
         rate |-> 0, price |-> 0, cpu_num |-> 0, cpu_den |-> 1, tmp |-> 0]

Init ==
    /\ app \in {"CLI", "GUI"}
    /\ items = EmptyMap
    /\ categories = {}
    /\ sales = <<>>
    /\ price_history = <<>>
    /\ last = NoCall
    /\ calls = 0
    /\ net = [s \in Skus |-> 0]
    /\ th = [t \in Threads |-> Idle]
    /\ db_items = EmptyMap
    /\ LOW_STOCK_THRESHOLD = 5
    /\ returned = NoValue
    /\ snap = {EmptyMap}

\* A call that returns normally is one of the MaxCalls of the run; one that
\* raises is not counted.
Returns(err) ==
    IF err = "ok" THEN calls < MaxCalls /\ calls' = calls + 1
    ELSE UNCHANGED calls

\* dict assignment self._items[sku] = item
Put(m, k, v) == [x \in DOMAIN m \cup {k} |-> IF x = k THEN v ELSE m[x]]
\* del self._items[sku]
Del(m, k) == [x \in DOMAIN m \ {k} |-> m[x]]

\* ------------------------------------------------------ Item (inventory.py)
\* Item(sku=sku, name=name, quantity=0, unit_price=0.0, total_cost=0.0)
Cli_Item(sku, name) ==
    [sku |-> sku, name |-> name, quantity |-> 0, unit_price |-> 0,
     total_cost |-> 0]

\* Item.purchase of inventory.py: the outcomes [err, item]; err = "ok" when
\* the call returns, else the ValueError raised (item is then untouched)
Cli_Item_purchase(it, qty, price_per_unit) ==
    IF qty <= 0 THEN {[err |-> "InvalidQuantity", item |-> it]}
    ELSE IF price_per_unit < 0 THEN {[err |-> "InvalidPrice", item |-> it]}
    ELSE LET new_total_qty == it.quantity + qty
             avgs == IF new_total_qty = 0 THEN {0}
                     ELSE Round(it.unit_price * it.quantity
                                  + price_per_unit * qty, new_total_qty, U4)
             tcs  == Round(it.total_cost + qty * price_per_unit, 1, U2)
         IN  {[err |-> "ok",
               item |-> [it EXCEPT !.quantity = new_total_qty,
                                   !.unit_price = a,
                                   !.total_cost = t]] : a \in avgs, t \in tcs}

\* --------------------------------------------------- Item (inventory_ui.py)
\* Item(sku=sku, name=name or "Unnamed", category=category,
\*      supplier=supplier, location=location) with the dataclass defaults
Item(sku, name, category, supplier, location) ==
    [sku |-> sku, name |-> name, category |-> category, quantity |-> 0,
     unit_price |-> 0, total_cost |-> 0, supplier |-> supplier,
     location |-> location, reorder_point |-> 5]

\* Item.purchase that takes the price paid as the new unit cost, whatever is
\* in stock
Item_purchase_NoAverage(it, qty, price_per_unit) ==
    IF qty <= 0 THEN {[err |-> "InvalidQuantity", item |-> it]}
    ELSE IF price_per_unit < 0 THEN {[err |-> "InvalidPrice", item |-> it]}
    ELSE {[err |-> "ok",
           item |-> [it EXCEPT !.quantity = it.quantity + qty,
                               !.unit_price = n,
                               !.total_cost = t]] :
             n \in Round(price_per_unit, 1, U4),
             t \in Round(it.total_cost + qty * price_per_unit, 1, U2)}

\* Item.purchase that divides the cost of the stock by the quantity bought
\* instead of the new quantity
Item_purchase_DivByQty(it, qty, price_per_unit) ==
    IF qty <= 0 THEN {[err |-> "InvalidQuantity", item |-> it]}
    ELSE IF price_per_unit < 0 THEN {[err |-> "InvalidPrice", item |-> it]}
    ELSE {[err |-> "ok",
           item |-> [it EXCEPT !.quantity = it.quantity + qty,
                               !.unit_price = n,
                               !.total_cost = t]] :
             n \in Round(it.unit_price * it.quantity + price_per_unit * qty,
                         qty, U4),
             t \in Round(it.total_cost + qty * price_per_unit, 1, U2)}

\* Item.purchase of inventory_ui.py
Item_purchase(it, qty, price_per_unit) ==
    IF qty <= 0 THEN {[err |-> "InvalidQuantity", item |-> it]}
    ELSE IF price_per_unit < 0 THEN {[err |-> "InvalidPrice", item |-> it]}
    ELSE LET new_qty == it.quantity + qty
             news == IF it.quantity > 0
                     THEN Round(it.unit_price * it.quantity
                                  + price_per_unit * qty, new_qty, U4)
                     ELSE Round(price_per_unit, 1, U4)
             tcs  == Round(it.total_cost + qty * price_per_unit, 1, U2)
         IN  {[err |-> "ok",
               item |-> [it EXCEPT !.quantity = new_qty,
                                   !.unit_price = n,
                                   !.total_cost = t]] : n \in news, t \in tcs}

\* The sale of Item.sell, once its checks have passed, with the unit cost
\* charged to the units sold (cpu_num / cpu_den), the new unit cost and the
\* quantity taken off the stock left open
Item_sell_With(it, qty, sale_price, cpu_num, cpu_den, new_unit, taken,
               keep_total) ==
    LET price == IF sale_price = None THEN it.unit_price
                 ELSE Val(sale_price)
        q     == it.quantity
        tcs   == IF keep_total THEN {it.total_cost}
                 ELSE IF q > 0 THEN Round(it.total_cost * (q - qty), q, U2)
                 ELSE Round(it.total_cost, 1, U2)
        profs == Round((price * cpu_den - cpu_num) * qty, cpu_den, U2)
    IN  {[err |-> "ok",
          item |-> [it EXCEPT !.quantity = q - taken, !.total_cost = t,
                              !.unit_price = u],
          profit |-> p] : t \in tcs, p \in profs, u \in new_unit}

\* Item.sell that leaves the quantity as it was
Item_sell_KeepsQuantity(it, qty, sale_price) ==
    IF qty <= 0 THEN {[err |-> "InvalidQuantity", item |-> it, profit |-> 0]}
    ELSE IF qty > it.quantity
    THEN {[err |-> "InsufficientStock", item |-> it, profit |-> 0]}
    ELSE Item_sell_With(it, qty, sale_price, it.total_cost, it.quantity,
                        {it.unit_price}, 0, FALSE)

\* Item.sell without the check of the quantity on hand
Item_sell_NoStockCheck(it, qty, sale_price) ==
    IF qty <= 0 THEN {[err |-> "InvalidQuantity", item |-> it, profit |-> 0]}
    ELSE Item_sell_With(it, qty, sale_price,
                        IF it.quantity > 0 THEN it.total_cost ELSE 0,
                        IF it.quantity > 0 THEN it.quantity ELSE 1,
                        {it.unit_price}, qty, FALSE)

\* Item.sell that takes the quantity off before it checks the stock
Item_sell_ChecksLate(it, qty, sale_price) ==
    IF qty <= 0 THEN {[err |-> "InvalidQuantity", item |-> it, profit |-> 0]}
    ELSE IF qty > it.quantity
    THEN {[err |-> "InsufficientStock",
           item |-> [it EXCEPT !.quantity = it.quantity - qty],
           profit |-> 0]}
    ELSE Item_sell_With(it, qty, sale_price, it.total_cost, it.quantity,
                        {it.unit_price}, qty, FALSE)

\* Item.sell that leaves the total cost as it was
Item_sell_KeepsTotal(it, qty, sale_price) ==
    IF qty <= 0 THEN {[err |-> "InvalidQuantity", item |-> it, profit |-> 0]}
    ELSE IF qty > it.quantity
    THEN {[err |-> "InsufficientStock", item |-> it, profit |-> 0]}
    ELSE Item_sell_With(it, qty, sale_price, it.total_cost, it.quantity,
                        {it.unit_price}, qty, TRUE)

\* Item.sell that takes a sale price of 0 for an omitted one (sale_price or
\* self.unit_price)
Item_sell_ZeroPriceIsNone(it, qty, sale_price) ==
    IF qty <= 0 THEN {[err |-> "InvalidQuantity", item |-> it, profit |-> 0]}
    ELSE IF qty > it.quantity
    THEN {[err |-> "InsufficientStock", item |-> it, profit |-> 0]}
    ELSE Item_sell_With(it, qty,
                        IF sale_price # None /\ Val(sale_price) = 0
                        THEN None ELSE sale_price,
                        it.total_cost, it.quantity, {it.unit_price}, qty,
                        FALSE)

\* Item.sell that sets the unit cost anew from total_cost / quantity
Item_sell_Reprices(it, qty, sale_price) ==
    IF qty <= 0 THEN {[err |-> "InvalidQuantity", item |-> it, profit |-> 0]}
    ELSE IF qty > it.quantity
    THEN {[err |-> "InsufficientStock", item |-> it, profit |-> 0]}
    ELSE Item_sell_With(it, qty, sale_price, it.total_cost, it.quantity,
                        Round(it.total_cost, it.quantity, U4), qty, FALSE)

\* Item.sell that takes the proceeds of the sale, not the cost of the units
\* sold, off the total cost
Item_sell_TakesSalePrice(it, qty, sale_price) ==
    IF qty <= 0 THEN {[err |-> "InvalidQuantity", item |-> it, profit |-> 0]}
    ELSE IF qty > it.quantity
    THEN {[err |-> "InsufficientStock", item |-> it, profit |-> 0]}
    ELSE LET price == IF sale_price = None THEN it.unit_price
                      ELSE Val(sale_price)
             q     == it.quantity
         IN  {[err |-> "ok",
               item |-> [it EXCEPT !.quantity = q - qty, !.total_cost = t],
               profit |-> p] :
                 t \in Round(it.total_cost - price * qty, 1, U2),
                 p \in Round((price * q - it.total_cost) * qty, q, U2)}

\* Item.sell that works the cost per unit out after it has taken the
\* quantity off (total_cost / quantity with the new quantity, 0 when none
\* is left)
Item_sell_CostAfterDecrement(it, qty, sale_price) ==
    IF qty <= 0 THEN {[err |-> "InvalidQuantity", item |-> it, profit |-> 0]}
    ELSE IF qty > it.quantity
    THEN {[err |-> "InsufficientStock", item |-> it, profit |-> 0]}
    ELSE LET price == IF sale_price = None THEN it.unit_price
                      ELSE Val(sale_price)
             left  == it.quantity - qty
             num   == IF left > 0 THEN it.total_cost ELSE 0
             den   == IF left > 0 THEN left ELSE 1
         IN  {[err |-> "ok",
               item |-> [it EXCEPT !.quantity = left, !.total_cost = t],
               profit |-> p] :
                 t \in Round(it.total_cost * den - num * qty, den, U2),
                 p \in Round((price * den - num) * qty, den, U2)}

\* Item.sell: the outcomes [err, item, profit].  cost_per_unit is
\* total_cost / quantity, so total_cost - cost_per_unit * qty is
\* total_cost * (quantity - qty) / quantity and the profit
\* (sale_price * quantity - total_cost) * qty / quantity.
Item_sell(it, qty, sale_price) ==
    IF qty <= 0 THEN {[err |-> "InvalidQuantity", item |-> it, profit |-> 0]}
    ELSE IF qty > it.quantity
    THEN {[err |-> "InsufficientStock", item |-> it, profit |-> 0]}
    ELSE LET price == IF sale_price = None THEN it.unit_price
                      ELSE Val(sale_price)
             q     == it.quantity
             tcs   == IF q > 0
                      THEN Round(it.total_cost * (q - qty), q, U2)
                      ELSE Round(it.total_cost, 1, U2)
             profs == IF q > 0
                      THEN Round((price * q - it.total_cost) * qty, q, U2)
                      ELSE Round(price * qty, 1, U2)
         IN  {[err |-> "ok",
               item |-> [it EXCEPT !.quantity = q - qty, !.total_cost = t],
               profit |-> p] : t \in tcs, p \in profs}

\* ------------------------------------------------ Inventory (inventory.py)
\* Inventory.purchase_item(sku, name, qty, price_per_unit)
Cli_purchase_item(raw, name, qty, price) ==
    LET sku   == Normalize(raw)
        had   == sku \in DOMAIN items
        item  == IF had
                 THEN (IF name # "" THEN [items[sku] EXCEPT !.name = name]
                       ELSE items[sku])
                 ELSE Cli_Item(sku, name)
    IN  /\ app = "CLI"
        /\ \E out \in Cli_Item_purchase(item, qty, price) :
             /\ items' = Put(items, sku, out.item)
             /\ Returns(out.err)
             /\ last' = Call("purchase", out.err, 0, 0)
             /\ net' = IF out.err = "ok"
                       THEN [net EXCEPT ![sku] = @ + qty] ELSE net
        /\ UNCHANGED <<app, LOW_STOCK_THRESHOLD, returned, db_items,
                   th, categories, sales, price_history>>

\* ------------------------------------- EnhancedInventory (inventory_ui.py)
\* purchase_item that logs a price change after every purchase, the unit
\* cost changed or not
purchase_item_LogsAlways(raw, name, category, qty, price, supplier, location) ==
    LET sku    == Normalize(raw)
        items1 == IF sku \notin DOMAIN items
                  THEN Put(items, sku,
                           Item(sku, IF name # "" THEN name ELSE "Unnamed",
                                category, supplier, location))
                  ELSE items
        old_price == items1[sku].unit_price
    IN  /\ app = "GUI"
        /\ \E out \in Item_purchase(items1[sku], qty, price) :
             /\ items' = Put(items1, sku, out.item)
             /\ Returns(out.err)
             /\ last' = Call("purchase", out.err, 0, 0)
             /\ IF out.err = "ok"
                THEN /\ net' = [net EXCEPT ![sku] = @ + qty]
                     /\ categories' = categories \cup {category}
                     /\ price_history' = Append(price_history,
                                [sku |-> sku, old_price |-> old_price,
                                 new_price |-> out.item.unit_price])
                ELSE UNCHANGED <<net, categories, price_history>>
        /\ UNCHANGED <<app, LOW_STOCK_THRESHOLD, returned, db_items,
                   th, sales>>

\* EnhancedInventory.purchase_item(sku, name, category, qty, price,
\*                                 supplier, location)
purchase_item(raw, name, category, qty, price, supplier, location) ==
    LET sku    == Normalize(raw)
        items1 == IF sku \notin DOMAIN items
                  THEN Put(items, sku,
                           Item(sku, IF name # "" THEN name ELSE "Unnamed",
                                category, supplier, location))
                  ELSE items
        old_price == items1[sku].unit_price
    IN  /\ app = "GUI"
        /\ \E out \in Item_purchase(items1[sku], qty, price) :
             /\ items' = Put(items1, sku, out.item)
             /\ Returns(out.err)
             /\ last' = Call("purchase", out.err, 0, 0)
             /\ IF out.err = "ok"
                THEN /\ net' = [net EXCEPT ![sku] = @ + qty]
                     /\ categories' = categories \cup {category}
                     /\ IF old_price # out.item.unit_price
                        THEN price_history' = Append(price_history,
                                [sku |-> sku, old_price |-> old_price,
                                 new_price |-> out.item.unit_price])
                        ELSE UNCHANGED price_history
                ELSE UNCHANGED <<net, categories, price_history>>
        /\ UNCHANGED <<app, LOW_STOCK_THRESHOLD, returned, db_items,
                   th, sales>>

\* sell_item_with_commission that stores the sale price as it was supplied
\* (the entry's unit cost when none was) while the commission is still
\* taken from sale_price or unit_price
sell_item_StoresGivenPrice(sku, qty, sale_price, commission_rate) ==
    /\ app = "GUI"
    /\ IF sku \notin DOMAIN items
       THEN /\ last' = Call("sell", "ItemNotFound", 0, 0)
            /\ UNCHANGED <<items, sales, net, calls>>
       ELSE \E out \in Item_sell(items[sku], qty, sale_price) :
              IF out.err # "ok"
              THEN /\ items' = Put(items, sku, out.item)
                   /\ last' = Call("sell", out.err, 0, 0)
                   /\ UNCHANGED <<sales, net, calls>>
              ELSE LET price == IF sale_price = None \/ Val(sale_price) = 0
                                THEN out.item.unit_price
                                ELSE Val(sale_price)
                       given == IF sale_price = None
                                THEN out.item.unit_price
                                ELSE Val(sale_price)
                       commission_amount == price * qty * commission_rate
                   IN  /\ Returns("ok")
                       /\ items' = Put(items, sku, out.item)
                       /\ sales' = Append(sales,
                            [sku |-> sku, quantity |-> qty,
                             sale_price |-> given, profit |-> out.profit,
                             commission_rate |-> commission_rate,
                             commission_amount |-> commission_amount])
                       /\ net' = [net EXCEPT ![sku] = @ - qty]
                       /\ last' = Call("sell", "ok", out.profit,
                                       commission_amount)
    /\ UNCHANGED <<app, LOW_STOCK_THRESHOLD, returned, db_items,
                   th, categories, price_history>>

\* sell_item_with_commission that inserts the sales row before Item.sell has
\* checked the quantity, so that a refused sale leaves its row behind
sell_item_InsertsFirst(sku, qty, sale_price, commission_rate) ==
    /\ app = "GUI"
    /\ IF sku \notin DOMAIN items
       THEN /\ last' = Call("sell", "ItemNotFound", 0, 0)
            /\ UNCHANGED <<items, sales, net, calls>>
       ELSE \E out \in Item_sell(items[sku], qty, sale_price) :
              LET price == IF sale_price = None \/ Val(sale_price) = 0
                           THEN out.item.unit_price
                           ELSE Val(sale_price)
                  commission_amount == price * qty * commission_rate
              IN  /\ items' = Put(items, sku, out.item)
                  /\ sales' = Append(sales,
                       [sku |-> sku, quantity |-> qty,
                        sale_price |-> price, profit |-> out.profit,
                        commission_rate |-> commission_rate,
                        commission_amount |-> commission_amount])
                  /\ Returns("ok")
                  /\ IF out.err # "ok"
                     THEN /\ last' = Call("sell", out.err, 0, 0)
                          /\ UNCHANGED net
                     ELSE /\ net' = [net EXCEPT ![sku] = @ - qty]
                          /\ last' = Call("sell", "ok", out.profit,
                                          commission_amount)
    /\ UNCHANGED <<app, LOW_STOCK_THRESHOLD, returned, db_items,
                   th, categories, price_history>>

\* EnhancedInventory.sell_item_with_commission(sku, qty, sale_price,
\*     customer, salesperson, commission_rate).  commission_amount is
\* total_sale * (commission_rate / 100), not rounded: the field holds it in
\* units of 1/(100 * Scale).
sell_item_with_commission(sku, qty, sale_price, commission_rate) ==
    /\ app = "GUI"
    /\ IF sku \notin DOMAIN items
       THEN /\ last' = Call("sell", "ItemNotFound", 0, 0)
            /\ UNCHANGED <<items, sales, net, calls>>
       ELSE \E out \in Item_sell(items[sku], qty, sale_price) :
              IF out.err # "ok"
              THEN /\ items' = Put(items, sku, out.item)
                   /\ last' = Call("sell", out.err, 0, 0)
                   /\ UNCHANGED <<sales, net, calls>>
              ELSE LET price == IF sale_price = None \/ Val(sale_price) = 0
                                THEN out.item.unit_price
                                ELSE Val(sale_price)
                       total_sale == price * qty
                       commission_amount == total_sale * commission_rate
                   IN  /\ Returns("ok")
                       /\ items' = Put(items, sku, out.item)
                       /\ sales' = Append(sales,
                            [sku |-> sku, quantity |-> qty,
                             sale_price |-> price, profit |-> out.profit,
                             commission_rate |-> commission_rate,
                             commission_amount |-> commission_amount])
                       /\ net' = [net EXCEPT ![sku] = @ - qty]
                       /\ last' = Call("sell", "ok", out.profit,
                                       commission_amount)
    /\ UNCHANGED <<app, LOW_STOCK_THRESHOLD, returned, db_items,
                   th, categories, price_history>>

\* delete_item that erases the sales rows of the SKU with its entry
delete_item_ErasesSales(sku) ==
    /\ app = "GUI"
    /\ IF sku \in DOMAIN items
       THEN /\ items' = Del(items, sku)
            /\ db_items' = Del(db_items, sku)
            /\ net' = [net EXCEPT ![sku] = 0]
            /\ sales' = SelectSeq(sales, LAMBDA row : row.sku # sku)
       ELSE UNCHANGED <<items, db_items, net, sales>>
    /\ last' = Call("delete", "ok", 0, 0)
    /\ Returns("ok")
    /\ UNCHANGED <<app, LOW_STOCK_THRESHOLD, returned,
                   th, categories, price_history>>

\* delete_item that raises when the SKU is not in the catalog
delete_item_RaisesIfAbsent(sku) ==
    /\ app = "GUI"
    /\ IF sku \in DOMAIN items
       THEN /\ items' = Del(items, sku)
            /\ db_items' = Del(db_items, sku)
            /\ net' = [net EXCEPT ![sku] = 0]
            /\ last' = Call("delete", "ok", 0, 0)
            /\ Returns("ok")
       ELSE /\ last' = Call("delete", "ItemNotFound", 0, 0)
            /\ UNCHANGED <<items, db_items, net, calls>>
    /\ UNCHANGED <<app, LOW_STOCK_THRESHOLD, returned,
                   th, categories, sales, price_history>>

\* EnhancedInventory.delete_item(sku)
delete_item(sku) ==
    /\ app = "GUI"
    /\ IF sku \in DOMAIN items
       THEN /\ items' = Del(items, sku)
            /\ db_items' = Del(db_items, sku)
            /\ net' = [net EXCEPT ![sku] = 0]
       ELSE UNCHANGED <<items, db_items, net>>
    /\ last' = Call("delete", "ok", 0, 0)
    /\ Returns("ok")
    /\ UNCHANGED <<app, LOW_STOCK_THRESHOLD, returned,
                   th, categories, sales, price_history>>

\* ------------------------------------ sell_item_with_commission, by steps
\* The same method run by a caller t that another caller may overlap: one
\* step per statement, and two (the read, the write) for each of the two
\* read-modify-write statements of Item.sell.  Nothing in inventory_ui.py
\* takes a lock.
\*
\* lines 328-329 and Item.sell lines 76-79: the checks
Sell_check(t, sku, qty, sale_price, commission_rate) ==
    /\ app = "GUI"
    /\ th[t].pc = "idle"
    /\ IF sku \notin DOMAIN items
       THEN /\ last' = Call("sell", "ItemNotFound", 0, 0)
            /\ UNCHANGED th
       ELSE IF qty <= 0
       THEN /\ last' = Call("sell", "InvalidQuantity", 0, 0)
            /\ UNCHANGED th
       ELSE IF qty > items[sku].quantity
       THEN /\ last' = Call("sell", "InsufficientStock", 0, 0)
            /\ UNCHANGED th
       ELSE /\ th' = [th EXCEPT ![t] =
                       [Idle EXCEPT !.pc = "cost", !.sku = sku, !.qty = qty,
                                    !.sale_price = sale_price,
                                    !.rate = commission_rate]]
            /\ UNCHANGED last
    /\ UNCHANGED <<app, LOW_STOCK_THRESHOLD, returned, db_items,
                   items, categories, sales, price_history, calls, net>>

\* Item.sell lines 81-84: sale_price defaulted, cost_per_unit read
Sell_cost(t) ==
    LET it == items[th[t].sku]
    IN  /\ th[t].pc = "cost"
        /\ th' = [th EXCEPT
                    ![t].pc = "load_quantity",
                    ![t].price = IF th[t].sale_price = None
                                 THEN it.unit_price
                                 ELSE Val(th[t].sale_price),
                    ![t].cpu_num = IF it.quantity > 0 THEN it.total_cost
                                   ELSE 0,
                    ![t].cpu_den = IF it.quantity > 0 THEN it.quantity
                                   ELSE 1]
        /\ UNCHANGED <<app, LOW_STOCK_THRESHOLD, returned, db_items,
                   items, categories, sales, price_history, last,
                       calls, net>>

\* Item.sell line 85, self.quantity -= qty: the read
Sell_load_quantity(t) ==
    /\ th[t].pc = "load_quantity"
    /\ th' = [th EXCEPT ![t].pc = "store_quantity",
                        ![t].tmp = items[th[t].sku].quantity]
    /\ UNCHANGED <<app, LOW_STOCK_THRESHOLD, returned, db_items,
                   items, categories, sales, price_history, last,
                   calls, net>>

\* Item.sell line 85: the write
Sell_store_quantity(t) ==
    /\ th[t].pc = "store_quantity"
    /\ items' = [items EXCEPT ![th[t].sku].quantity = th[t].tmp - th[t].qty]
    /\ th' = [th EXCEPT ![t].pc = "load_total"]
    /\ UNCHANGED <<app, LOW_STOCK_THRESHOLD, returned, db_items,
                   categories, sales, price_history, last, calls, net>>

\* Item.sell line 86, self.total_cost = round(self.total_cost - ..., 2):
\* the read
Sell_load_total(t) ==
    /\ th[t].pc = "load_total"
    /\ th' = [th EXCEPT ![t].pc = "store_total",
                        ![t].tmp = items[th[t].sku].total_cost]
    /\ UNCHANGED <<app, LOW_STOCK_THRESHOLD, returned, db_items,
                   items, categories, sales, price_history, last,
                   calls, net>>

\* Item.sell line 86: the write
Sell_store_total(t) ==
    /\ th[t].pc = "store_total"
    /\ \E tc \in Round(th[t].tmp * th[t].cpu_den - th[t].cpu_num * th[t].qty,
                        th[t].cpu_den, U2) :
         items' = [items EXCEPT ![th[t].sku].total_cost = tc]
    /\ th' = [th EXCEPT ![t].pc = "record"]
    /\ UNCHANGED <<app, LOW_STOCK_THRESHOLD, returned, db_items,
                   categories, sales, price_history, last, calls, net>>

\* Item.sell lines 89-90 and lines 332-350: the profit, the sales row, the
\* return
Sell_record(t) ==
    LET me    == th[t]
        price == IF me.sale_price = None \/ Val(me.sale_price) = 0
                 THEN items[me.sku].unit_price
                 ELSE Val(me.sale_price)
        commission_amount == price * me.qty * me.rate
    IN  /\ me.pc = "record"
        /\ Returns("ok")
        /\ \E profit \in Round((me.price * me.cpu_den - me.cpu_num) * me.qty,
                                me.cpu_den, U2) :
             /\ sales' = Append(sales,
                    [sku |-> me.sku, quantity |-> me.qty,
                     sale_price |-> price, profit |-> profit,
                     commission_rate |-> me.rate,
                     commission_amount |-> commission_amount])
             /\ last' = Call("sell", "ok", profit, commission_amount)
        /\ net' = [net EXCEPT ![me.sku] = @ - me.qty]
        /\ th' = [th EXCEPT ![t] = Idle]
        /\ UNCHANGED <<app, LOW_STOCK_THRESHOLD, returned, db_items,
                   items, categories, price_history>>

\* ------------------------------------------------------------------ steps
\* (snap is kept by the steps of SpecStorage only)
CliPurchase ==
    /\ \E c \in Purchases : Cli_purchase_item(c[1], c[2].name, c[3], c[4])
    /\ UNCHANGED snap

GuiPurchase ==
    /\ \E c \in Purchases :
         purchase_item(c[1], c[2].name, c[2].category, c[3], c[4],
                       c[2].supplier, c[2].location)
    /\ UNCHANGED snap

GuiSell ==
    /\ \E c \in Sells :
         sell_item_with_commission(c[1], c[2], c[3][1], c[3][2])
    /\ UNCHANGED snap

GuiDelete ==
    /\ \E raw \in RawSkus : delete_item(raw)
    /\ UNCHANGED snap

Next == CliPurchase \/ GuiPurchase \/ GuiSell \/ GuiDelete

Spec == Init /\ [][Next]_vars

\* Two callers selling from one GUI catalog.  Purchases are made, whole,
\* while no sale is under way.
ConcurrentSells == { <<X1, 1, <<None, 0>>>>, <<X1, 2, <<Some(5 * Scale), 5>>>>,
                     <<Y2, 1, <<Some(5 * Scale), 5>>>>, <<X1, 0, <<None, 0>>>> }

InitConcurrent == Init /\ app = "GUI"

PurchaseBetweenSales ==
    /\ \A t \in Threads : th[t].pc = "idle"
    /\ GuiPurchase

SellCheck ==
    /\ \E t \in Threads, c \in ConcurrentSells :
         Sell_check(t, c[1], c[2], c[3][1], c[3][2])
    /\ UNCHANGED snap

SellCost == (\E t \in Threads : Sell_cost(t)) /\ UNCHANGED snap
SellLoadQuantity ==
    (\E t \in Threads : Sell_load_quantity(t)) /\ UNCHANGED snap
SellStoreQuantity ==
    (\E t \in Threads : Sell_store_quantity(t)) /\ UNCHANGED snap
SellLoadTotal == (\E t \in Threads : Sell_load_total(t)) /\ UNCHANGED snap
SellStoreTotal == (\E t \in Threads : Sell_store_total(t)) /\ UNCHANGED snap
SellRecord == (\E t \in Threads : Sell_record(t)) /\ UNCHANGED snap

NextConcurrent ==
    \/ PurchaseBetweenSales
    \/ SellCheck
    \/ SellCost
    \/ SellLoadQuantity
    \/ SellStoreQuantity
    \/ SellLoadTotal
    \/ SellStoreTotal
    \/ SellRecord

SpecConcurrent == InitConcurrent /\ [][NextConcurrent]_vars

\* ---------------------------------------------------------------- queries
\* The dict-valued queries hand out the Item objects of the catalog
\* themselves, under their keys.  An entry of the catalog is named by its
\* SKU, so the value under a key is that SKU (a reference), and what the
\* caller reads or writes through it is items[that SKU].
Refs(S) == [k \in S |-> k]

\* sum(...) over the values of a dict or of a list
RECURSIVE sum_over(_, _)
sum_over(f, S) ==
    IF S = {} THEN 0
    ELSE LET k == CHOOSE x \in S : TRUE
         IN  f[k] + sum_over(f, S \ {k})

sum(f) == sum_over(f, DOMAIN f)

\* list_inventory of both catalogs: dict(self._items)
list_inventory(its) == Refs(DOMAIN its)

\* Inventory.low_stock_items of inventory.py
Cli_low_stock_items(its) ==
    Refs({sku \in DOMAIN its : its[sku].quantity <= LOW_STOCK_THRESHOLD})

\* low_stock_items that leaves out the entries just at their reorder point
low_stock_items_Below(its) ==
    Refs({sku \in DOMAIN its : its[sku].quantity < its[sku].reorder_point})

\* low_stock_items that goes by the global threshold, as the CLI's does
low_stock_items_ByThreshold(its) ==
    Refs({sku \in DOMAIN its : its[sku].quantity <= LOW_STOCK_THRESHOLD})

\* EnhancedInventory.low_stock_items
low_stock_items(its) ==
    Refs({sku \in DOMAIN its : its[sku].quantity <= its[sku].reorder_point})

\* EnhancedInventory.get_reorder_suggestions
get_reorder_suggestions(its) ==
    Refs({sku \in DOMAIN its : its[sku].quantity <= its[sku].reorder_point})

\* a suggestion of just the reorder point
suggested_qty_UpToPoint(item) == item.reorder_point

\* suggested_qty of _show_reorder_suggestions
suggested_qty(item) == Max2(item.reorder_point * 2, 10)

\* the Suggested Order column of _show_reorder_suggestions, by SKU
show_reorder_suggestions(its) ==
    [sku \in DOMAIN get_reorder_suggestions(its) |-> suggested_qty(its[sku])]

\* a valuation that adds up the unit costs
total_inventory_value_OfUnits(its) ==
    Round(sum([k \in DOMAIN its |-> its[k].unit_price]), 1, U2)

\* total_inventory_value of both catalogs: the values round(, 2) can give
total_inventory_value(its) ==
    Round(sum([k \in DOMAIN its |-> its[k].total_cost]), 1, U2)

\* get_sales_data_with_commission: the rows dated in the last 30 days.  Rows
\* are dated when they are written, so these are the n latest, for some n.
get_sales_data_with_commission(rows, n) ==
    SubSeq(rows, Len(rows) - n + 1, Len(rows))

\* get_analytics that gives 0 only when the revenue is 0
get_analytics_ZeroOnlyAtZero(sales_data) ==
    LET total_sales  == sum([i \in DOMAIN sales_data |->
                               sales_data[i].sale_price
                                 * sales_data[i].quantity])
        total_profit == sum([i \in DOMAIN sales_data |->
                               sales_data[i].profit])
    IN  IF total_sales # 0 THEN <<total_profit * 100, total_sales>>
        ELSE <<0, 1>>

\* avg_profit_margin of get_analytics over the rows sales_data, as the
\* fraction <<numerator, denominator>>
get_analytics(sales_data) ==
    LET total_sales  == sum([i \in DOMAIN sales_data |->
                               sales_data[i].sale_price
                                 * sales_data[i].quantity])
        total_profit == sum([i \in DOMAIN sales_data |->
                               sales_data[i].profit])
    IN  IF total_sales > 0 THEN <<total_profit * 100, total_sales>>
        ELSE <<0, 1>>

\* str.lower(), on the letters used
Lower(c) == CASE c = "X" -> "x"
              [] c = "Y" -> "y"
              [] c = "W" -> "w"
              [] c = "U" -> "u"
              [] OTHER   -> c

lower(s) == [i \in 1..Len(s) |-> Lower(s[i])]

\* sub in s, of two strings
Contains(s, sub) ==
    \E i \in 0..(Len(s) - Len(sub)) : SubSeq(s, i + 1, i + Len(sub)) = sub

\* the letters of the names that entries are given
Chars(name) ==
    CASE name = "Widget"  -> <<"W", "i", "d", "g", "e", "t">>
      [] name = "Unnamed" -> <<"U", "n", "n", "a", "m", "e", "d">>
      [] OTHER            -> <<>>

\* EnhancedInventory.search_items; "" is a category or a location that is
\* not given.  A barcode is BC and eight digits: it holds no query that has
\* another letter, as every query made here has.
search_items(its, query, category, location) ==
    LET q == lower(query)
        matches(sku) ==
            /\ \/ q = <<>>
               \/ Contains(lower(sku), q)
               \/ Contains(lower(Chars(its[sku].name)), q)
            /\ category # "" => its[sku].category = category
            /\ location # "" => its[sku].location = location
    IN  Refs({sku \in DOMAIN its : matches(sku)})

\* A query returns value to its caller; it is one of the calls of the run.
Query(op, value) ==
    /\ returned' = value
    /\ last' = Call(op, "ok", 0, 0)
    /\ Returns("ok")
    /\ UNCHANGED <<app, items, categories, sales, price_history, net, th,
                   db_items, LOW_STOCK_THRESHOLD, snap>>

QueryList ==
    Query("list_inventory",
          [NoValue EXCEPT !.entries = list_inventory(items)])

Queries == { << <<>>, "", "" >>, << <<"X">>, "", "" >>,
             << <<"w", "i", "d">>, "General", "" >>,
             << <<>>, "Tools", "Retail Floor" >> }

QuerySearch ==
    /\ app = "GUI"
    /\ \E c \in Queries :
         Query("search_items",
               [NoValue EXCEPT
                  !.entries = search_items(items, c[1], c[2], c[3])])

QueryLowStock ==
    Query("low_stock_items",
          [NoValue EXCEPT
             !.entries = IF app = "CLI" THEN Cli_low_stock_items(items)
                         ELSE low_stock_items(items)])

\* the Reorder Suggestions window
QueryReorder ==
    /\ app = "GUI"
    /\ Query("get_reorder_suggestions",
             [NoValue EXCEPT !.entries = get_reorder_suggestions(items),
                             !.order = show_reorder_suggestions(items)])

QueryValue ==
    \E a \in total_inventory_value(items) :
        Query("total_inventory_value", [NoValue EXCEPT !.amount = a])

\* get_analytics() with the n latest sales in its window
Analytics(n) ==
    /\ app = "GUI"
    /\ Query("get_analytics",
             [NoValue EXCEPT
                !.ratio = get_analytics(
                              get_sales_data_with_commission(sales, n))])

QueryAnalytics == \E n \in 0..Len(sales) : Analytics(n)

\* ------------------------------------------------------------- settings
\* EnhancedInventoryApp._update_item with the form filled in for the entry
\* raw: the fields are written into the entry, and the reorder point too
\* when one is entered.  (Not a call of the catalog: it is not counted.)
update_item(raw, name, category, supplier, location, reorder) ==
    LET sku == [i \in 1..Len(RStrip(LStrip(raw))) |->
                  Upper(RStrip(LStrip(raw))[i])]
    IN  /\ app = "GUI"
        /\ IF sku \notin DOMAIN items
           THEN /\ last' = Call("update_item", "ItemNotFound", 0, 0)
                /\ UNCHANGED items
           ELSE /\ last' = Call("update_item", "ok", 0, 0)
                /\ items' = [items EXCEPT
                     ![sku].name = name,
                     ![sku].category =
                         IF category # "" THEN category ELSE "General",
                     ![sku].supplier = supplier,
                     ![sku].location =
                         IF location # "" THEN location
                         ELSE "Main Warehouse",
                     ![sku].reorder_point =
                         IF reorder = None THEN @ ELSE Val(reorder)]
        /\ UNCHANGED <<app, categories, sales, price_history, calls, net,
                       th, db_items, LOW_STOCK_THRESHOLD, returned>>

\* EnhancedInventoryApp._update_threshold with new_threshold entered.  (Not
\* a call of the catalog: it is not counted.)
update_threshold(new_threshold) ==
    /\ app = "GUI"
    /\ IF new_threshold < 0
       THEN /\ last' = Call("update_threshold", "InvalidInput", 0, 0)
            /\ UNCHANGED LOW_STOCK_THRESHOLD
       ELSE /\ last' = Call("update_threshold", "ok", 0, 0)
            /\ LOW_STOCK_THRESHOLD' = new_threshold
    /\ UNCHANGED <<app, items, categories, sales, price_history, calls,
                   net, th, db_items, returned>>

\* ----------------------------------------------------- the catalog, viewed
\* Purchases, sales (one at a profit, one at a negative price, one of a
\* free sample, one of more than there is), removals and changes of the
\* settings (the reorder point of the first SKU, the global threshold), with
\* the queries made in between.
ViewPurchases == { <<X1, Widget, 2, 2 * Scale>>, <<Y2, Widget, 1, 0>>,
                   <<Y2, Widget, 1, 4 * Scale + 6>>, <<X1, Widget, 0, 0>> }
ViewSells == { <<X1, 1, <<Some(5 * Scale), 0>>>>,
               <<X1, 1, <<Some(-Scale), 0>>>>,
               <<Y2, 1, <<None, 0>>>>, <<X1, 3, <<None, 0>>>> }
ReorderPoints == {None, Some(-1), Some(2), Some(20)}
Thresholds == {-1, 0}

ViewCliPurchase ==
    /\ \E c \in ViewPurchases :
         Cli_purchase_item(c[1], c[2].name, c[3], c[4])
    /\ UNCHANGED snap

ViewGuiPurchase ==
    /\ \E c \in ViewPurchases :
         purchase_item(c[1], c[2].name, c[2].category, c[3], c[4],
                       c[2].supplier, c[2].location)
    /\ UNCHANGED snap

ViewSell ==
    /\ \E c \in ViewSells :
         sell_item_with_commission(c[1], c[2], c[3][1], c[3][2])
    /\ UNCHANGED snap

ViewDelete ==
    /\ \E sku \in Skus : delete_item(sku)
    /\ UNCHANGED snap

UpdateItem ==
    /\ \E raw \in {x1}, r \in ReorderPoints :
         update_item(raw, Widget.name, Widget.category, Widget.supplier,
                     Widget.location, r)
    /\ UNCHANGED snap

UpdateThreshold ==
    /\ \E v \in Thresholds : update_threshold(v)
    /\ UNCHANGED snap

\* the purchase of what the Reorder Suggestions window, just shown, says to
\* order of the entry sku, at some price
Reorder(sku) ==
    /\ last.op = "get_reorder_suggestions"
    /\ sku \in DOMAIN returned.order
    /\ purchase_item(sku, items[sku].name, items[sku].category,
                     returned.order[sku], 2 * Scale, items[sku].supplier,
                     items[sku].location)
    /\ UNCHANGED snap

ReorderAsSuggested == \E sku \in Skus : Reorder(sku)

NextViews ==
    \/ ViewCliPurchase \/ ViewGuiPurchase \/ ViewSell \/ ViewDelete
    \/ UpdateItem \/ UpdateThreshold \/ ReorderAsSuggested
    \/ QueryLowStock \/ QueryReorder \/ QueryValue \/ QueryAnalytics

SpecViews == Init /\ [][NextViews]_vars

\* ------------------------------------------------ a caller with a result
\* What the caller of list_inventory, search_items or low_stock_items (a
\* view or a report that renders the result) can do with the dict it was
\* given, before the catalog is called again: write a field of an entry of
\* the dict, put a key in the dict, take a key out of it.
Fresh ==
    last.op \in {"list_inventory", "search_items", "low_stock_items",
                 "render_set", "render_put", "render_del"}

\* returned[k].field = v
Render_set(k, field, v) ==
    /\ Fresh
    /\ k \in DOMAIN returned.entries
    /\ items' = [items EXCEPT ![returned.entries[k]][field] = v]
    /\ last' = Call("render_set", "ok", 0, 0)
    /\ UNCHANGED <<app, categories, sales, price_history, calls, net, th,
                   db_items, LOW_STOCK_THRESHOLD, returned>>

\* returned[k] = returned[j]
Render_put(k, j) ==
    /\ Fresh
    /\ j \in DOMAIN returned.entries
    /\ returned' = [returned EXCEPT
                      !.entries = Put(@, k, returned.entries[j])]
    /\ last' = Call("render_put", "ok", 0, 0)
    /\ UNCHANGED <<app, items, categories, sales, price_history, calls,
                   net, th, db_items, LOW_STOCK_THRESHOLD>>

\* del returned[k]
Render_del(k) ==
    /\ Fresh
    /\ k \in DOMAIN returned.entries
    /\ returned' = [returned EXCEPT !.entries = Del(@, k)]
    /\ last' = Call("render_del", "ok", 0, 0)
    /\ UNCHANGED <<app, items, categories, sales, price_history, calls,
                   net, th, db_items, LOW_STOCK_THRESHOLD>>

RenderPurchases == { <<X1, Widget, 1, 2 * Scale>>, <<Y2, NoName, 1, 0>>,
                     <<X1, Widget, 0, 2 * Scale>> }
RenderWrites == { <<"name", "Edited">>, <<"quantity", 0>> }
Z9 == <<"Z", "9">>

RenderCliPurchase ==
    /\ \E c \in RenderPurchases :
         Cli_purchase_item(c[1], c[2].name, c[3], c[4])
    /\ UNCHANGED snap

RenderGuiPurchase ==
    /\ \E c \in RenderPurchases :
         purchase_item(c[1], c[2].name, c[2].category, c[3], c[4],
                       c[2].supplier, c[2].location)
    /\ UNCHANGED snap

RenderSet ==
    /\ \E k \in Skus, w \in RenderWrites : Render_set(k, w[1], w[2])
    /\ UNCHANGED snap

RenderPut ==
    /\ \E j \in Skus : Render_put(Z9, j)
    /\ UNCHANGED snap

RenderDel ==
    /\ \E k \in Skus \cup {Z9} : Render_del(k)
    /\ UNCHANGED snap

NextRenderer ==
    \/ RenderCliPurchase \/ RenderGuiPurchase
    \/ QueryList \/ QuerySearch \/ QueryLowStock
    \/ RenderSet \/ RenderPut \/ RenderDel

SpecRenderer == Init /\ [][NextRenderer]_vars

\* --------------------------------------------------------------- storage
\* sell_item_with_commission when the INSERT INTO sales raises (sqlite3
\* raises OperationalError when another connection holds the database
\* locked): Item.sell has been made by then, no row is written, and the
\* error leaves the method.
sell_item_InsertRaises(sku, qty, sale_price, commission_rate) ==
    /\ app = "GUI"
    /\ sku \in DOMAIN items
    /\ \E out \in Item_sell(items[sku], qty, sale_price) :
         /\ out.err = "ok"
         /\ items' = Put(items, sku, out.item)
    /\ last' = Call("sell", "OperationalError", 0, 0)
    /\ Returns("OperationalError")
    /\ UNCHANGED <<app, LOW_STOCK_THRESHOLD, returned, db_items, th,
                   categories, sales, price_history, net>>

\* EnhancedInventory.save_to_database: INSERT OR REPLACE of every entry of
\* the catalog.  (It adds nothing to the history: it is not counted.)
save_to_database ==
    /\ app = "GUI"
    /\ db_items' = [k \in DOMAIN db_items \cup DOMAIN items |->
                      IF k \in DOMAIN items THEN items[k] ELSE db_items[k]]
    /\ last' = Call("save", "ok", 0, 0)
    /\ UNCHANGED <<app, items, categories, sales, price_history, calls,
                   net, th, LOW_STOCK_THRESHOLD, returned>>

\* The program is closed without saving (_on_close, answered No) and
\* started again: EnhancedInventory.__init__ with load_from_database.  The
\* tables stay; the catalog and the categories are those of the items table,
\* and the module global is initialised again.
restart ==
    /\ app = "GUI"
    /\ items' = db_items
    /\ categories' = {db_items[k].category : k \in DOMAIN db_items}
    /\ LOW_STOCK_THRESHOLD' = 5
    /\ returned' = NoValue
    /\ last' = Call("restart", "ok", 0, 0)
    /\ UNCHANGED <<app, sales, price_history, calls, net, th, db_items>>

\* snap after a step: the catalogs there have been since the last sales row
\* or removal was written to the database.  Through: the step wrote one;
\* Held: it wrote none.
Through == snap' = {items'}
Held == snap' = snap \cup {items'}

InitStorage == Init /\ app = "GUI"

StoredPurchases == { <<X1, Widget, 2, 2 * Scale>>, <<Y2, Widget, 1, 0>> }
StoredSells == { <<X1, 1, <<Some(5 * Scale), 0>>>>, <<X1, 3, <<None, 0>>>> }

StoredPurchase ==
    /\ \E c \in StoredPurchases :
         purchase_item(c[1], c[2].name, c[2].category, c[3], c[4],
                       c[2].supplier, c[2].location)
    /\ Held

StoredSell ==
    /\ \E c \in StoredSells :
         sell_item_with_commission(c[1], c[2], c[3][1], c[3][2])
    /\ IF Len(sales') > Len(sales) THEN Through ELSE Held

StoredSellInsertRaises ==
    /\ \E c \in StoredSells :
         sell_item_InsertRaises(c[1], c[2], c[3][1], c[3][2])
    /\ Held

StoredDelete ==
    /\ \E sku \in Skus : delete_item(sku)
    /\ IF items' # items THEN Through ELSE Held

Save == save_to_database /\ Held

Restart == restart /\ Held

NextStorage ==
    \/ StoredPurchase \/ StoredSell \/ StoredSellInsertRaises
    \/ StoredDelete \/ Save \/ Restart

SpecStorage == InitStorage /\ [][NextStorage]_vars

TypeOK ==
    /\ app \in {"CLI", "GUI"}
    /\ DOMAIN items \subseteq Skus
    /\ \A s \in DOMAIN items : items[s].quantity \in Int
    /\ calls \in 0..MaxCalls
    /\ Len(sales) <= calls
    /\ Len(price_history) <= calls

\* ------------------------------------------------------- calls, as steps
\* the step is the call c of Purchases, on whichever catalog runs
PurchaseCall(c) ==
    \/ Cli_purchase_item(c[1], c[2].name, c[3], c[4])
    \/ purchase_item(c[1], c[2].name, c[2].category, c[3], c[4],
                     c[2].supplier, c[2].location)

\* the step is the call c of Sells
SellCall(c) == sell_item_with_commission(c[1], c[2], c[3][1], c[3][2])

\* quantity, unit cost and total cost of the entry a call meets: those of a
\* new entry when the SKU is not in the catalog
Ledger(sku) ==
    IF sku \in DOMAIN items
    THEN [quantity |-> items[sku].quantity,
          unit_price |-> items[sku].unit_price,
          total_cost |-> items[sku].total_cost]
    ELSE [quantity |-> 0, unit_price |-> 0, total_cost |-> 0]

Invalid(c) == c[3] <= 0 \/ c[4] < 0

\* the step is the call delete_item(raw)
DeleteCall(raw) == delete_item(raw)

\* s has no blank at either end and no lower-case letter
TrimmedUpper(s) ==
    /\ s # <<>> => ~IsSpace(s[1]) /\ ~IsSpace(s[Len(s)])
    /\ \A i \in 1..Len(s) : s[i] \notin {"x", "y"}

\* the SKU that the spelling raw of the calls stands for
KeyOf(raw) == IF raw \in {X1, x1} THEN X1 ELSE Y2

\* |total_cost - quantity * unit_price| of an entry
Drift(it) == Abs(it.total_cost - it.quantity * it.unit_price)

\* ------------------------------------------------------------------ C1
\* C1: every entry's quantity is the sum of the quantities of the successful
\* purchases of its SKU minus the sum of those of its successful sales, since
\* the entry was created, whatever calls failed in between.
C1_QuantityIsNetOfCalls ==
    \A s \in DOMAIN items : items[s].quantity = net[s]

\* an entry bought, partly sold, and then refused a sale
C1_Witness ==
    /\ last = Call("sell", "InsufficientStock", 0, 0)
    /\ \E s \in DOMAIN items :
         /\ items[s].quantity > 0
         /\ \E i \in 1..Len(sales) : sales[i].sku = s

\* ------------------------------------------------------------------ C2
\* C2: in every reachable state every entry's quantity is >= 0.
C2_QuantityNonNegative ==
    \A s \in DOMAIN items : items[s].quantity >= 0

\* the last unit of an entry has just been sold
C2_Witness ==
    /\ last.op = "sell" /\ last.result = "ok"
    /\ \E i \in 1..Len(sales) :
         sales[i].sku \in DOMAIN items /\ items[sales[i].sku].quantity = 0

\* ------------------------------------------------------------------ C3
\* C3: a sale of more than the quantity on hand raises the "Not enough
\* stock" error (InsufficientStock) and leaves the entry, with its quantity,
\* unit cost and total cost, as it was; no sale row is written.
C3_OversellRejected ==
    [][\A c \in Sells :
         (/\ last'.op = "sell"
          /\ c[1] \in DOMAIN items
          /\ c[2] > items[c[1]].quantity
          /\ SellCall(c))
         => /\ last'.result = "InsufficientStock"
            /\ c[1] \in DOMAIN items'
            /\ items'[c[1]].quantity = items[c[1]].quantity
            /\ items'[c[1]].unit_price = items[c[1]].unit_price
            /\ items'[c[1]].total_cost = items[c[1]].total_cost
            /\ sales' = sales]_vars

\* a sale of 2 was refused on an entry holding 1
C3_Witness ==
    /\ last = Call("sell", "InsufficientStock", 0, 0)
    /\ X1 \in DOMAIN items /\ items[X1].quantity = 1

\* ------------------------------------------------------------------ C4
\* C4: a purchase with qty <= 0 or price < 0 for a SKU that is not in the
\* catalog fails and leaves the set of SKUs of the catalog as it was.
C4_InvalidPurchaseCreatesNoEntry ==
    [][\A c \in Purchases :
         (/\ last'.op = "purchase"
          /\ Normalize(c[1]) \notin DOMAIN items
          /\ Invalid(c)
          /\ PurchaseCall(c))
         => /\ last'.result # "ok"
            /\ DOMAIN items' = DOMAIN items]_vars

\* ------------------------------------------------------------------ C5
\* C5: a purchase with qty <= 0 or price < 0 for a SKU that is in the catalog
\* leaves every field of its entry, the name included, as it was.
C5_InvalidPurchaseLeavesEntry ==
    [][\A c \in Purchases :
         (/\ last'.op = "purchase"
          /\ Normalize(c[1]) \in DOMAIN items
          /\ Invalid(c)
          /\ PurchaseCall(c))
         => /\ last'.result # "ok"
            /\ items' = items]_vars

C7_UnitCostBetween ==
    [][\A c \in Purchases :
         (last'.op = "purchase" /\ last'.result = "ok" /\ PurchaseCall(c))
         => LET old == Ledger(Normalize(c[1])).unit_price
                new == items'[Normalize(c[1])].unit_price
            IN  Min2(old, c[4]) <= new /\ new <= Max2(old, c[4])]_vars

\* C7 as amended: after a successful purchase the new unit cost lies within
\* half a ten-thousandth (the 4-decimal rounding) of the interval between
\* the previous unit cost and the price, and inside the interval when the
\* price has at most 4 decimals; also for an entry of quantity 0 whose unit
\* cost is left over from earlier stock.
C7_UnitCostBetweenRounded ==
    [][\A c \in Purchases :
         (last'.op = "purchase" /\ last'.result = "ok" /\ PurchaseCall(c))
         => LET old == Ledger(Normalize(c[1])).unit_price
                new == items'[Normalize(c[1])].unit_price
            IN  /\ 2 * Min2(old, c[4]) - U4 <= 2 * new
                /\ 2 * new <= 2 * Max2(old, c[4]) + U4
                /\ c[4] % U4 = 0
                     => Min2(old, c[4]) <= new /\ new <= Max2(old, c[4])
       ]_vars

\* a purchase at 2.00 on an entry sold out at a left-over unit cost of 4.0001
C7_Witness ==
    /\ last = Call("purchase", "ok", 0, 0)
    /\ X1 \in DOMAIN items
    /\ items[X1].unit_price = 2 * Scale
    /\ Len(price_history) > 0
    /\ price_history[Len(price_history)] =
         [sku |-> X1, old_price |-> 4 * Scale + U4, new_price |-> 2 * Scale]
    /\ Len(sales) > 0

\* ------------------------------------------------------------------ C8
\* C8: total cost equals quantity * unit cost up to the rounding applied at
\* each step: a new entry has both at 0, and a successful purchase or sale
\* moves |total cost - quantity * unit cost| up by at most half a cent (the
\* rounding of the total) plus half a ten-thousandth per unit then on hand
\* (the rounding of the unit cost).
C8_AccountingIdentity ==
    [][\A s \in DOMAIN items' :
         LET old == Ledger(s)
             new == items'[s]
         IN  2 * Drift(new) <= 2 * Drift(old) + U2 + new.quantity * U4]_vars

\* 2 units left at 3.3334 each with 6.67 in total: 0.0032 apart
C8_Witness ==
    /\ last.op = "sell" /\ last.result = "ok"
    /\ X1 \in DOMAIN items
    /\ items[X1].quantity = 2
    /\ items[X1].unit_price = 333340
    /\ items[X1].total_cost = 667000

\* ------------------------------------------------------------------ C9
\* C9: a successful sale of qty units returns the profit
\* (price - cost_per_unit) * qty rounded to 2 decimals, where cost_per_unit
\* is total cost / quantity before the sale and price is the sale price
\* supplied, or the entry's unit cost when none is; and it takes
\* cost_per_unit * qty off the total cost (kept to 2 decimals).
C9_SaleProfit ==
    [][\A c \in Sells :
         (last'.op = "sell" /\ last'.result = "ok" /\ SellCall(c))
         => LET it    == items[c[1]]
                qty   == c[2]
                price == IF c[3][1] = None THEN it.unit_price
                         ELSE Val(c[3][1])
            IN  /\ last'.profit \in
                     Round((price * it.quantity - it.total_cost) * qty,
                           it.quantity, U2)
                /\ items'[c[1]].total_cost \in
                     Round(it.total_cost * it.quantity
                             - it.total_cost * qty, it.quantity, U2)]_vars

\* 1 of 3 units costing 10.00 sold at 5.00: profit 1.67
C9_Witness ==
    /\ last.op = "sell" /\ last.result = "ok" /\ last.profit = 167000
    /\ X1 \in DOMAIN items /\ items[X1].quantity = 2

\* ----------------------------------------------------------------- C10
\* C10: a successful sale leaves the unit cost of the entry sold from as it
\* was, and every other entry of the catalog as it was.
C10_SaleFrame ==
    [][\A c \in Sells :
         (last'.op = "sell" /\ last'.result = "ok" /\ SellCall(c))
         => /\ DOMAIN items' = DOMAIN items
            /\ items'[c[1]].unit_price = items[c[1]].unit_price
            /\ \A t \in DOMAIN items \ {c[1]} : items'[t] = items[t]]_vars

\* a sale from the first entry, at a unit cost of 4.0001 that its total cost
\* of 4.00 does not give back, with the second entry in stock
C10_Witness ==
    /\ last.op = "sell" /\ last.result = "ok"
    /\ sales[Len(sales)].sku = X1
    /\ items[X1].unit_price = 4 * Scale + U4
    /\ Y2 \in DOMAIN items /\ items[Y2].quantity = 1

\* ----------------------------------------------------------------- C11
\* C11: in every state reached by successful purchases and sales, with the
\* unit cost rounded to 4 decimals and the total cost to 2 at every step,
\* every entry's total cost is >= 0.
C11_TotalCostNonNegative ==
    \A s \in DOMAIN items : items[s].total_cost >= 0

\* 2 of 3 units costing 10.00 sold: the 3.3333... left is kept as 3.33,
\* below one unit at the unit cost of 3.3334
C11_Witness ==
    /\ last.op = "sell" /\ last.result = "ok"
    /\ X1 \in DOMAIN items
    /\ items[X1].quantity = 1
    /\ items[X1].total_cost = 333000
    /\ items[X1].total_cost < items[X1].quantity * items[X1].unit_price

\* ----------------------------------------------------------------- C12
\* C12: every row of the sales table has commission_amount = quantity *
\* sale_price * commission_rate / 100, on the values of that same row
\* (commission_amount is held in hundredths of a money unit, so the division
\* by 100 is in the unit).
C12_CommissionOfRecord ==
    \A i \in 1..Len(sales) :
        sales[i].commission_amount =
            sales[i].quantity * sales[i].sale_price * sales[i].commission_rate

\* a sale at a supplied price of 0 and 5 % commission: the row holds the
\* unit cost as its price, a commission on it, and the loss made
C12_Witness ==
    \E i \in 1..Len(sales) :
        /\ sales[i].commission_rate = 5
        /\ sales[i].commission_amount > 0
        /\ sales[i].profit < 0

\* ----------------------------------------------------------------- C13
\* C13: a sale uses the entry's unit cost as its price only when no sale
\* price is supplied; with a price supplied, 0 included, the price stored in
\* the sales row, the total sale and the commission (stored and returned)
\* are those of the supplied price, the price the profit returned is
\* computed from.
C13_SuppliedPriceUsed ==
    [][\A c \in Sells :
         (last'.op = "sell" /\ last'.result = "ok" /\ SellCall(c))
         => LET it    == items[c[1]]
                qty   == c[2]
                rate  == c[3][2]
                price == IF c[3][1] = None THEN it.unit_price
                         ELSE Val(c[3][1])
                row   == sales'[Len(sales')]
            IN  /\ row.sale_price = price
                /\ row.commission_amount = price * qty * rate
                /\ last'.commission = price * qty * rate
                /\ last'.profit \in
                     Round((price * it.quantity - it.total_cost) * qty,
                           it.quantity, U2)
                /\ row.profit = last'.profit]_vars

\* ----------------------------------------------------------------- C14
\* C14: the sales table holds one row per successful sale, in call order: a
\* successful sale appends the row of its SKU and quantity at the end; a
\* sale that fails (SKU absent: ItemNotFound, qty <= 0: InvalidQuantity,
\* qty above the quantity on hand: InsufficientStock) appends nothing; and
\* no purchase, sale or removal changes or deletes a row already there.
C14_OneRowPerSale ==
    [][/\ (last'.op = "sell" /\ last'.result = "ok")
            => /\ Len(sales') = Len(sales) + 1
               /\ SubSeq(sales', 1, Len(sales)) = sales
       /\ ~(last'.op = "sell" /\ last'.result = "ok") => sales' = sales
       /\ \A c \in Sells :
            (last'.op = "sell" /\ SellCall(c))
            => /\ c[1] \notin DOMAIN items
                    => last'.result = "ItemNotFound"
               /\ (c[1] \in DOMAIN items /\ c[2] <= 0)
                    => last'.result = "InvalidQuantity"
               /\ (c[1] \in DOMAIN items /\ c[2] > 0
                     /\ c[2] > items[c[1]].quantity)
                    => last'.result = "InsufficientStock"
               /\ last'.result = "ok"
                    => /\ sales'[Len(sales')].sku = c[1]
                       /\ sales'[Len(sales')].quantity = c[2]]_vars

\* the entry sold from has been removed and the row of its sale is there
C14_Witness ==
    /\ last = Call("delete", "ok", 0, 0)
    /\ X1 \notin DOMAIN items
    /\ Len(sales) = 1 /\ sales[1].sku = X1

\* ----------------------------------------------------------------- C15
\* C15: when a row is written to the sales table, its SKU is in the catalog
\* and the quantity on hand of that entry is at least the quantity of the
\* row.
C15_RecordedSaleWasCovered ==
    [][Len(sales') > Len(sales)
         => LET row == sales'[Len(sales')]
            IN  /\ row.sku \in DOMAIN items
                /\ items[row.sku].quantity >= row.quantity]_vars

\* the whole stock of 2 sold in one sale
C15_Witness ==
    /\ last.op = "sell" /\ last.result = "ok"
    /\ sales[Len(sales)].quantity = 2
    /\ items[sales[Len(sales)].sku].quantity = 0

\* ----------------------------------------------------------------- C16
\* C16: when two sales of one SKU overlap, the check of the quantity and
\* the write of the quantity of one are not separated by those of the other:
\* no entry's quantity becomes negative and the quantity sold of a SKU, over
\* all sales rows, never exceeds the quantity that was bought of it.
C16_NoOversellWhenConcurrent ==
    \A s \in DOMAIN items : net[s] >= 0 /\ items[s].quantity >= 0

\* ----------------------------------------------------------------- C17
\* C17: after any purchases every key of the catalog is a trimmed,
\* upper-cased SKU and the sku field of its entry; a purchase under a
\* spelling that differs in letter case or surrounding blanks goes to the
\* one entry of its SKU, adding to the quantity there.
C17_KeysNormalized ==
    [][/\ \A s \in DOMAIN items' : TrimmedUpper(s) /\ items'[s].sku = s
       /\ \A c \in Purchases :
            (last'.op = "purchase" /\ last'.result = "ok" /\ PurchaseCall(c))
            => /\ DOMAIN items' = DOMAIN items \cup {KeyOf(c[1])}
               /\ items'[KeyOf(c[1])].quantity =
                     Ledger(KeyOf(c[1])).quantity + c[3]]_vars

\* the entry created as "x1 " (the only purchase in category Tools of this
\* SKU) and then bought 2 more of as "X1"
C17_Witness ==
    /\ app = "GUI"
    /\ DOMAIN items = {X1}
    /\ items[X1].category = "Tools"
    /\ items[X1].quantity = 3

\* ----------------------------------------------------------------- C18
\* C18: a sale or a removal called with a spelling of a stored SKU that
\* differs in letter case or surrounding blanks acts on the stored entry:
\* the sale does not fail with ItemNotFound and, when it succeeds, takes its
\* quantity off that entry; the removal removes that entry.
C18_SaleAndRemovalNormalize ==
    [][/\ \A c \in Sells :
            (/\ last'.op = "sell"
             /\ KeyOf(c[1]) \in DOMAIN items
             /\ SellCall(c))
            => /\ last'.result # "ItemNotFound"
               /\ last'.result = "ok"
                    => items'[KeyOf(c[1])].quantity =
                         items[KeyOf(c[1])].quantity - c[2]
       /\ \A raw \in RawSkus :
            (/\ last'.op = "delete"
             /\ KeyOf(raw) \in DOMAIN items
             /\ DeleteCall(raw))
            => KeyOf(raw) \notin DOMAIN items']_vars

\* ----------------------------------------------------------------- C19
\* C19: a successful purchase on a SKU already in the catalog sets each of
\* name, category, supplier and location of the entry to the value supplied
\* when that is not empty, and leaves it when it is empty (the CLI entry
\* has the name only).
C19_MetadataLastWriteWins ==
    [][\A c \in Purchases :
         (/\ last'.op = "purchase" /\ last'.result = "ok"
          /\ Normalize(c[1]) \in DOMAIN items
          /\ PurchaseCall(c))
         => LET old == items[Normalize(c[1])]
                new == items'[Normalize(c[1])]
            IN  /\ new.name = IF c[2].name # "" THEN c[2].name ELSE old.name
                /\ app = "GUI"
                     => /\ new.category = IF c[2].category # ""
                                          THEN c[2].category ELSE old.category
                        /\ new.supplier = IF c[2].supplier # ""
                                          THEN c[2].supplier ELSE old.supplier
                        /\ new.location = IF c[2].location # ""
                                          THEN c[2].location ELSE old.location
       ]_vars

\* ----------------------------------------------------------------- C20
\* C20: delete_item(sku) removes the entry of that SKU and leaves every
\* other entry as it was; when the SKU is not in the catalog it raises
\* nothing and leaves the catalog as it was.
C20_RemoveItemFrame ==
    [][\A raw \in RawSkus :
         (last'.op = "delete" /\ DeleteCall(raw))
         => /\ last'.result = "ok"
            /\ DOMAIN items' = DOMAIN items \ {raw}
            /\ \A t \in DOMAIN items' : items'[t] = items[t]
            /\ raw \notin DOMAIN items => items' = items]_vars

\* the first entry, whose purchase is in the price history, has been
\* removed and the second one is in stock as it was
C20_Witness ==
    /\ last = Call("delete", "ok", 0, 0)
    /\ X1 \notin DOMAIN items
    /\ \E i \in 1..Len(price_history) : price_history[i].sku = X1
    /\ Y2 \in DOMAIN items /\ items[Y2].quantity = 1

\* ----------------------------------------------------------------- C27
\* C27: a purchase through the GUI catalog (the one that keeps a price
\* history) writes a price-change row exactly when it succeeds and leaves
\* the entry with a unit cost other than the one before it (0 for an entry
\* it created); the row holds the SKU, that old unit cost and the new one.
\* A purchase that fails writes none.
C27_PriceChangeLogged ==
    [][\A c \in Purchases :
         (last'.op = "purchase" /\ app = "GUI" /\ PurchaseCall(c))
         => LET sku == KeyOf(c[1])
                old == Ledger(sku).unit_price
            IN  IF last'.result = "ok" /\ items'[sku].unit_price # old
                THEN price_history' =
                       Append(price_history,
                              [sku |-> sku, old_price |-> old,
                               new_price |-> items'[sku].unit_price])
                ELSE price_history' = price_history]_vars

\* 3 units bought at 2.00 in two purchases: one row, of the first
C27_Witness ==
    /\ app = "GUI"
    /\ last = Call("purchase", "ok", 0, 0)
    /\ calls = 2
    /\ DOMAIN items = {X1}
    /\ items[X1].quantity = 3 /\ items[X1].unit_price = 2 * Scale
    /\ Len(price_history) = 1

\* ----------------------------------------------------------------- C28
\* C28: a sale of the whole quantity on hand leaves the entry with quantity
\* 0 and total cost exactly 0, whatever purchases and partial sales came
\* before.
C28_SellingAllLeavesNoCost ==
    [][\A c \in Sells :
         (/\ last'.op = "sell" /\ last'.result = "ok"
          /\ SellCall(c)
          /\ c[2] = items[c[1]].quantity)
         => /\ items'[c[1]].quantity = 0
            /\ items'[c[1]].total_cost = 0]_vars

\* 2 units bought at 4.00006, sold one and then the other
C28_Witness ==
    /\ last.op = "sell" /\ last.result = "ok"
    /\ Len(sales) = 2
    /\ sales[1].sku = X1 /\ sales[2].sku = X1
    /\ items[X1].quantity = 0
    /\ items[X1].unit_price = 4 * Scale + U4

\* ------------------------------------------------------------------ C21
\* the reorder point of an entry: its own in the GUI catalog; an entry of the
\* CLI catalog has none, and the global threshold stands for it
ReorderPointOf(it) ==
    IF app = "CLI" THEN LOW_STOCK_THRESHOLD ELSE it.reorder_point

CostIn(its, sku) == IF sku \in DOMAIN its THEN its[sku].total_cost ELSE 0

\* C22: whatever purchases, sales and removals came before,
\* total_inventory_value() returns the sum of total_cost over the entries
\* then in the catalog, to the nearest hundredth; an entry that was removed
\* adds nothing.
C22_ValueIsSumOfTotalCosts ==
    [][last'.op = "total_inventory_value"
       => /\ returned'.amount % U2 = 0
          /\ 2 * Abs(returned'.amount - (CostIn(items, X1) + CostIn(items, Y2)))
               <= U2
          /\ items' = items]_vars

\* the value of a catalog of two entries, 4.00 each
C22_Witness ==
    /\ app = "GUI" /\ last.op = "total_inventory_value"
    /\ DOMAIN items = {X1, Y2}
    /\ items[X1].total_cost = 4 * Scale /\ items[Y2].total_cost = 4 * Scale
    /\ items[Y2].unit_price = 4 * Scale + U4
    /\ returned.amount = 8 * Scale

\* ------------------------------------------------------------------ C24
\* revenue and profit of the sales rows: the sums of sale_price * quantity
\* and of profit
RECURSIVE RevenueOf(_)
RevenueOf(rows) ==
    IF rows = <<>> THEN 0
    ELSE Head(rows).sale_price * Head(rows).quantity + RevenueOf(Tail(rows))

RECURSIVE ProfitOf(_)
ProfitOf(rows) ==
    IF rows = <<>> THEN 0 ELSE Head(rows).profit + ProfitOf(Tail(rows))

RECURSIVE GCD(_, _)
GCD(a, b) == IF b = 0 THEN a ELSE GCD(b, a % b)

\* the fraction num / den in lowest terms, its denominator positive
Lowest(num, den) ==
    LET g == GCD(Abs(num), Abs(den))
        s == IF den < 0 THEN -1 ELSE 1
    IN  <<(s * num) \div g, (s * den) \div g>>

\* the step is get_analytics() with the n latest sales in its window, and
\* the margin it returns is 0 when zero holds of the revenue of the window,
\* and profit / revenue * 100 when it does not
MarginIs(n, zero(_)) ==
    (last'.op = "get_analytics" /\ Analytics(n))
    => LET window == SubSeq(sales, Len(sales) - n + 1, Len(sales))
           num    == returned'.ratio[1]
           den    == returned'.ratio[2]
       IN  /\ last'.result = "ok"
           /\ den # 0
           /\ IF zero(RevenueOf(window)) THEN num = 0
              ELSE Lowest(num, den)
                     = Lowest(ProfitOf(window) * 100, RevenueOf(window))

IsZero(revenue) == revenue = 0
NotPositive(revenue) == revenue <= 0

\* C24 as stated: get_analytics never fails, and its margin is 0 when the
\* revenue of the window is 0 and profit / revenue * 100 otherwise.
C24_MarginZeroOnlyAtZeroRevenue ==
    [][\A n \in 0..Len(sales) : MarginIs(n, IsZero)]_vars

\* C24, amended: get_analytics never fails, and its margin is 0 when the
\* revenue of the window is 0 or negative (the window is empty, or its sale
\* prices are 0 or below), and profit / revenue * 100 when the revenue is
\* positive.
C24_MarginZeroUnlessRevenuePositive ==
    [][\A n \in 0..Len(sales) : MarginIs(n, NotPositive)]_vars

\* analytics after one sale at the price -1.00 of a unit that cost 2.00
C24_Witness ==
    /\ last.op = "get_analytics" /\ last.result = "ok"
    /\ Len(sales) = 1 /\ sales[1].sale_price = -Scale
    /\ sales[1].profit = -3 * Scale
    /\ returned.ratio = <<0, 1>>

\* ------------------------------------------------------------------ C29
\* C29: the Reorder Suggestions window proposes max(reorder_point * 2, 10)
\* units of every entry it lists, and a purchase of that many units of a
\* listed entry leaves its quantity above its reorder point: the entry is
\* then not among the low stock items.
C29_SuggestedOrderLiftsEntry ==
    [][/\ last'.op = "get_reorder_suggestions"
          => \A sku \in DOMAIN returned'.entries :
                returned'.order[sku] =
                    IF items[sku].reorder_point * 2 >= 10
                    THEN items[sku].reorder_point * 2 ELSE 10
       /\ \A sku \in Skus :
            (/\ last.op = "get_reorder_suggestions"
             /\ sku \in DOMAIN returned.entries
             /\ last'.op = "purchase" /\ last'.result = "ok"
             /\ Reorder(sku))
            => /\ items'[sku].quantity > items'[sku].reorder_point
               /\ sku \notin DOMAIN low_stock_items(items')]_vars

\* 40 units ordered of an entry with 2 on hand and the reorder point 20
C29_Witness ==
    /\ app = "GUI" /\ last = Call("purchase", "ok", 0, 0)
    /\ X1 \in DOMAIN items
    /\ items[X1].reorder_point = 20 /\ items[X1].quantity = 42
    /\ X1 \in DOMAIN returned.order /\ returned.order[X1] = 40

\* ------------------------------------------------------------------ C30
\* C30: in the GUI catalog a change of LOW_STOCK_THRESHOLD made by
\* _update_threshold changes neither what low_stock_items() returns nor what
\* get_reorder_suggestions() returns, which go by each entry's quantity and
\* reorder_point; in the CLI catalog low_stock_items() returns the entries
\* whose quantity is at most the global threshold.
C30_ThresholdOnlyCountsInCli ==
    [][/\ (app = "GUI" /\ last'.op = "update_threshold")
          => /\ low_stock_items(items)' = low_stock_items(items)
             /\ get_reorder_suggestions(items)'
                  = get_reorder_suggestions(items)
       /\ (app = "GUI" /\ last'.op \in {"low_stock_items",
                                        "get_reorder_suggestions"})
          => DOMAIN returned'.entries =
               {sku \in DOMAIN items :
                  items[sku].quantity <= items[sku].reorder_point}
       /\ (app = "CLI" /\ last'.op = "low_stock_items")
          => DOMAIN returned'.entries =
               {sku \in DOMAIN items :
                  items[sku].quantity <= LOW_STOCK_THRESHOLD}]_vars

\* the threshold was set to 0 and an entry with 2 on hand, reorder point 5,
\* is still returned as low on stock
C30_Witness ==
    /\ app = "GUI" /\ LOW_STOCK_THRESHOLD = 0
    /\ last.op = "low_stock_items"
    /\ X1 \in DOMAIN items /\ items[X1].quantity = 2
    /\ items[X1].reorder_point = 5
    /\ X1 \in DOMAIN returned.entries

\* ------------------------------------------------------------------ C23
\* C23: nothing that the caller of list_inventory, search_items or
\* low_stock_items does with the result (a field of an entry written, a key
\* put in or taken out) changes the catalog.
C23_ResultsAreCopies ==
    [][last'.op \in {"render_set", "render_put", "render_del"}
       => items' = items]_vars

\* ------------------------------------------------------------------ C25
\* C25: a sale that fails, for whatever reason (the failure of the INSERT of
\* its row among them), leaves the catalog as it was, and every sale that
\* takes stock off an entry writes a row.
C25_SaleIsAllOrNothing ==
    [][last'.op = "sell"
       => /\ last'.result # "ok" => items' = items
          /\ items' # items => Len(sales') = Len(sales) + 1]_vars

\* ------------------------------------------------------------------ C26
\* C26: the catalog loaded at a restart is one there has been since the
\* last sales row or removal was written to the database: every sale that
\* has a row has its quantity taken off in it, and every removal that the
\* database has is one of a catalog that is loaded whole.
C26_ReloadIsOneSnapshot ==
    [][last'.op = "restart" => items' \in snap]_vars

====
